---- MODULE Spec2Model ----
(***************************************************************************)
(* A model of TwitterScraper.py: the pagination loop of                    *)
(* TwitterSearch.perform_search, the retrying fetch of execute_search, and *)
(* the day-sliced, thread-pooled TwitterSlicer.search.                     *)
(*                                                                         *)
(* A run is one call of perform_search.  TwitterSearch.search makes one    *)
(* run (run 1); TwitterSlicer.search makes one run per day, each executed  *)
(* by a worker thread of a ThreadPoolExecutor, all on the same object.     *)
(***************************************************************************)
EXTENDS Integers, Sequences, FiniteSets, TLC

(* ------------------------------ bounds -------------------------------- *)
\* Runs (shards) the model has room for.
MaxShards == 2
\* Successful page fetches of one run after which the feed is exhausted.
MaxPages == 2
\* The same, for a run that shares the executor with other runs.
ShardMaxPages == 1
\* Largest max_tweets of a TwitterSearchImpl.
MaxQuota == 3
\* Blocks (li elements) in one items_html fragment.
MaxItems == 2
\* Distinct tweet ids the feed can emit.
MaxId == 2
\* save_tweets calls of one run (the loop of a run that never advances is cut here).
MaxSaves == 2
\* The same, for a run that shares the executor with other runs.
ShardMaxSaves == 1
\* Nested execute_search frames the interpreter allows before RecursionError
\* (sys.getrecursionlimit(), 1000 in CPython, scaled down).
RecursionLimit == 2
\* Clock ticks in one day: since and until are datetimes, finer than a date.
TicksPerDay == 2
\* Latest clock tick of since and until.
MaxTick == 5
\* Largest n_threads.
MaxThreads == 2

Runs == 1..MaxShards
Ids == 1..MaxId

(* ------------------------------ values -------------------------------- *)
\* max_position=None (construct_url's default), and the tokens.
None == <<>>
Cursors == {<<"cursor", 1>>}

\* "TWEET-%s-%s" % (a, b)
Marker(a, b) == <<"TWEET", a, b>>

\* A block of items_html: an li with data-item-id = id, or (0) an li without one.
Blocks == 0..MaxId

RECURSIVE SeqsUpTo(_, _)
SeqsUpTo(S, n) ==
    IF n = 0 THEN {<<>>}
    ELSE LET shorter == SeqsUpTo(S, n - 1)
         IN  shorter \cup {Append(q, x) : q \in {p \in shorter : Len(p) = n - 1}, x \in S}

\* What json.loads(req.text) can be: JSON null (json_null), or an object whose
\* "items_html" and "min_position" keys are each absent, null or a value.
MkResponse(jn, hi, inul, it, hm, mnul, mp) ==
    [json_null |-> jn, has_items |-> hi, items_null |-> inul, items_html |-> it,
     has_min |-> hm, min_null |-> mnul, min_position |-> mp]

NullResponse == MkResponse(TRUE, FALSE, FALSE, <<>>, FALSE, FALSE, None)
NoItemsKey == MkResponse(FALSE, FALSE, FALSE, <<>>, FALSE, FALSE, None)
NullItems == MkResponse(FALSE, TRUE, TRUE, <<>>, FALSE, FALSE, None)

PageResponses(pages) ==
    {MkResponse(FALSE, TRUE, FALSE, it, FALSE, FALSE, None) : it \in pages}
      \cup {MkResponse(FALSE, TRUE, FALSE, it, TRUE, TRUE, None) : it \in pages}
      \cup {MkResponse(FALSE, TRUE, FALSE, it, TRUE, FALSE, c) : it \in pages, c \in Cursors}

\* A tweet dict: its tweet_id and the identity of the str object holding it
\* (line 53 compares the two ids with "is not").  obj = <<g, k>>: the k-th
\* tweet of the run's first parse_tweets call (g = 1) or of a later one (g = 2);
\* only objects of the first call are ever compared with others (min_tweet).
NoTweet == [tweet_id |-> 0, obj |-> <<0, 0>>]

RECURSIVE ParseFrom(_, _, _)
ParseFrom(items, g, k) ==
    IF items = <<>> THEN <<>>
    ELSE IF Head(items) = 0
         THEN ParseFrom(Tail(items), g, k)
         ELSE <<[tweet_id |-> Head(items), obj |-> <<g, k>>]>>
                \o ParseFrom(Tail(items), g, k + 1)

\* parse_tweets: one tweet per li that has a data-item-id, in document order.
parse_tweets(items_html, g) == ParseFrom(items_html, g, 1)

\* construct_url: the parameters urlencode writes, in order.
construct_url(q, mp) ==
    <<<<"f", "tweets">>, <<"q", q>>>>
      \o (IF mp # None THEN <<<<"max_position", mp>>>> ELSE <<>>)

(* ------------------------------ state --------------------------------- *)
VARIABLES
    cls,              \* the class whose search was called
    max_tweets,       \* self.max_tweets of a TwitterSearchImpl
    feed,             \* what the server answers: to the first url, to the others
    interp,           \* whether two equal id strings are one object in this build
    main,             \* where the calling thread is
    pc,               \* where each run of perform_search is
    query,            \* perform_search's query argument
    url,              \* perform_search's url
    response,         \* perform_search's response
    tweets,           \* perform_search's tweets
    min_tweet,        \* perform_search's min_tweet (NoTweet: None)
    continue_search,  \* perform_search's continue_search
    depth,            \* execute_search frames below the first one
    exc,              \* the exception that ended the run, if any
    since, until, n_threads,   \* TwitterSlicer's fields
    counter,          \* self.counter
    i,                \* the loop index of TwitterSlicer.search
    queue,            \* the executor's work queue
    idx,              \* save_tweets: the position of its for loop
    tmp,              \* save_tweets: the value of self.counter it has read
    \* history, read by the properties only
    stopcond,         \* the first stop condition the run has met
    late_save,        \* save_tweets was called after a stop condition
    advanced,         \* what lines 53-58 did for the batch last saved
    first_seen,       \* the id of the first record of the run
    saves_of_page,    \* save_tweets calls on the current response (2: two or more)
    nfetch,           \* successful fetches of the run
    nsaves,           \* save_tweets calls of the run
    delivered,        \* records handed to TwitterSlicer.save_tweets, over all runs
    reused,           \* the run has built the url it had just fetched once more
    starts,           \* calls of perform_search made for the run
    batches,          \* the batches handed to TwitterSearchImpl.save_tweets
    slept,            \* the sleeps of the run since its last request
    \* one call of parse_tweets, statement by statement
    li_list,          \* soup.find_all("li", class_='js-stream-item')
    li_idx,           \* the position of the for loop in li_list
    parse_pc,         \* where the loop body is
    tweet,            \* the tweet dict being filled
    parsed,           \* parse_tweets' tweets list
    attempts,         \* history: requests.get calls of get_tweet for this li
    geo_req           \* history: how the last get_tweet call went

engineVars == <<pc, query, url, response, tweets, min_tweet, continue_search, depth, exc>>
slicerVars == <<since, until, n_threads, counter, i, queue, idx, tmp>>
traceVars == <<stopcond, late_save, advanced, first_seen, saves_of_page, nfetch,
               nsaves, delivered, reused, starts, batches>>
historyVars == <<traceVars, slept>>
envVars == <<cls, max_tweets, feed, interp>>
parseVars == <<li_list, li_idx, parse_pc, tweet, parsed, attempts, geo_req>>
vars == <<envVars, main, engineVars, slicerVars, historyVars, parseVars>>

\* The outcomes of  a['tweet_id'] is not b['tweet_id'] : the same object is
\* never "is not" itself, different ids are different objects, and for two
\* objects holding equal ids the answer is the interpreter's (interned or
\* cached strings are one object, PyPy compares strings by value).
IsNot(a, b) ==
    IF a.obj = b.obj THEN {FALSE}
    ELSE IF a.tweet_id # b.tweet_id THEN {TRUE}
    ELSE IF interp = "open" THEN {TRUE, FALSE}
    ELSE {interp = "two"}

\* The max_position parameter of a url (None when it has none).
MaxPositionOf(u) == IF Len(u) >= 3 THEN u[3][2] ELSE None

Finished(s) == pc[s] \in {"done", "aborted"}
Running == {s \in Runs : pc[s] \notin {"idle", "queued", "done", "aborted"}}

(* --------------------------- execute_search --------------------------- *)
\* The feed: any page while it lasts, then an empty or null one.
Pages == SeqsUpTo(Blocks, MaxItems)
Responses == PageResponses(Pages) \cup {NullResponse, NoItemsKey, NullItems}
TerminalResponses == PageResponses({<<>>}) \cup {NullItems}

\* The feed of a shard: a page of one tweet with a cursor or of two tweets
\* with none while it lasts, then a null one.
ShardResponses ==
    {MkResponse(FALSE, TRUE, FALSE, <<1>>, TRUE, FALSE, c) : c \in Cursors}
      \cup {MkResponse(FALSE, TRUE, FALSE, <<1, 2>>, FALSE, FALSE, None)}
      \cup {NullItems}

PageBound == IF MaxPages > ShardMaxPages THEN MaxPages ELSE ShardMaxPages

FeedResponses(s) ==
    IF cls = "TwitterSlicer"
    THEN (IF nfetch[s] < ShardMaxPages THEN ShardResponses ELSE {NullItems})
    ELSE IF cls = "TwitterSearchImpl"
    THEN {IF MaxPositionOf(url[s]) = None THEN feed.first ELSE feed.next}
    ELSE (IF nfetch[s] < MaxPages THEN Responses ELSE TerminalResponses)

\* Lines 69-78: requests.get and json.loads succeed; every frame returns data.
ExecuteOk(s) ==
    /\ pc[s] = "fetch"
    /\ \E r \in FeedResponses(s) : response' = [response EXCEPT ![s] = r]
    /\ pc' = [pc EXCEPT ![s] = "loop"]
    /\ depth' = [depth EXCEPT ![s] = 0]
    /\ nfetch' = [nfetch EXCEPT ![s] = IF @ < PageBound THEN @ + 1 ELSE @]
    /\ saves_of_page' = [saves_of_page EXCEPT ![s] = 0]
    /\ advanced' = [advanced EXCEPT ![s] = "none"]
    /\ slept' = [slept EXCEPT ![s] = <<>>]
    /\ UNCHANGED <<envVars, parseVars, main, query, url, tweets, min_tweet, continue_search, exc,
                   slicerVars, stopcond, late_save, first_seen, nsaves, delivered,
                   reused, starts, batches>>

\* Lines 75-85: requests.get or json.loads raises; the handler logs and sleeps.
ExecuteFail(s) ==
    /\ pc[s] = "fetch"
    /\ pc' = [pc EXCEPT ![s] = "error_sleep"]
    /\ slept' = [slept EXCEPT ![s] = <<>>]
    /\ UNCHANGED <<envVars, parseVars, main, query, url, response, tweets, min_tweet,
                   continue_search, depth, exc, slicerVars, traceVars>>

\* A handler that sleeps for the delay between pages.
RetryDelayRate == "rate_delay"

\* Line 85: sleep(self.error_delay)
RetryDelay == "error_delay"

\* Line 60: sleep(self.rate_delay)
PageDelay == "rate_delay"

\* Line 86: whether the interpreter has room for one more execute_search frame.
CanRecurse(d) == d + 1 < RecursionLimit

\* Lines 85-86: the sleep ends and execute_search calls itself with the same
\* url, from inside the except block: a RecursionError raised by that call is
\* caught by no frame and leaves execute_search.
ErrorSleep(s) ==
    /\ pc[s] = "error_sleep"
    /\ IF CanRecurse(depth[s])
       THEN /\ depth' = [depth EXCEPT ![s] = @ + 1]
            /\ pc' = [pc EXCEPT ![s] = "fetch"]
            /\ exc' = exc
       ELSE /\ depth' = [depth EXCEPT ![s] = 0]
            /\ pc' = [pc EXCEPT ![s] = "aborted"]
            /\ exc' = [exc EXCEPT ![s] = "RecursionError"]
    /\ slept' = [slept EXCEPT ![s] = Append(@, RetryDelay)]
    /\ UNCHANGED <<envVars, parseVars, main, query, url, response, tweets, min_tweet,
                   continue_search, slicerVars, traceVars>>

(* --------------------------- perform_search --------------------------- *)
\* Lines 34-37: the first url has no max_position; then the first fetch.
StartOf(s, q) ==
    /\ query' = [query EXCEPT ![s] = q]
    /\ url' = [url EXCEPT ![s] = construct_url(q, None)]
    /\ continue_search' = [continue_search EXCEPT ![s] = TRUE]
    /\ min_tweet' = [min_tweet EXCEPT ![s] = NoTweet]
    /\ pc' = [pc EXCEPT ![s] = "fetch"]
    /\ starts' = [starts EXCEPT ![s] = @ + 1]
    /\ slept' = [slept EXCEPT ![s] = <<>>]
    /\ UNCHANGED <<stopcond, late_save, advanced, first_seen, saves_of_page, nfetch,
                   nsaves, delivered, reused, batches>>

\* Line 38, in Python's order: response is not None, then continue_search,
\* then response['items_html'], which raises KeyError when the key is absent.
WhileOutcome(r, cs) ==
    IF r.json_null THEN "exit"
    ELSE IF ~cs THEN "exit"
    ELSE IF ~r.has_items THEN "KeyError"
    ELSE IF r.items_null THEN "exit"
    ELSE "body"

\* min_tweet taken anew from every batch.
MinTweetEachBatch(mt, ts) == ts[1]

\* Lines 46-47.
MinTweetAfter(mt, ts) == IF mt = NoTweet THEN ts[1] ELSE mt

\* Lines 38-47: the loop test, parse_tweets, the break on an empty batch, and
\* min_tweet, up to the call of save_tweets.
WhileTest(s) ==
    /\ pc[s] = "loop"
    /\ LET r == response[s]
           out == WhileOutcome(r, continue_search[s])
           ts == parse_tweets(r.items_html, IF min_tweet[s] = NoTweet THEN 1 ELSE 2)
       IN  \/ /\ out = "exit"
              /\ pc' = [pc EXCEPT ![s] = "done"]
              /\ stopcond' = [stopcond EXCEPT ![s] =
                     IF @ = "none" /\ ~r.json_null /\ r.has_items /\ r.items_null
                     THEN "null_items" ELSE @]
              /\ UNCHANGED <<tweets, min_tweet, exc, idx, first_seen>>
           \/ /\ out = "KeyError"
              /\ pc' = [pc EXCEPT ![s] = "aborted"]
              /\ exc' = [exc EXCEPT ![s] = "KeyError"]
              /\ stopcond' = [stopcond EXCEPT ![s] = "absent_items"]
              /\ UNCHANGED <<tweets, min_tweet, idx, first_seen>>
           \/ /\ out = "body"
              /\ ts = <<>>
              /\ tweets' = [tweets EXCEPT ![s] = ts]
              /\ pc' = [pc EXCEPT ![s] = "done"]
              /\ stopcond' = [stopcond EXCEPT ![s] = "no_tweets"]
              /\ UNCHANGED <<min_tweet, exc, idx, first_seen>>
           \/ /\ out = "body"
              /\ ts # <<>>
              /\ tweets' = [tweets EXCEPT ![s] = ts]
              /\ min_tweet' = [min_tweet EXCEPT ![s] = MinTweetAfter(@, ts)]
              /\ first_seen' = [first_seen EXCEPT ![s] = IF @ = 0 THEN ts[1].tweet_id ELSE @]
              /\ idx' = [idx EXCEPT ![s] = 1]
              /\ pc' = [pc EXCEPT ![s] = "save"]
              /\ UNCHANGED <<exc, stopcond>>
    /\ advanced' = [advanced EXCEPT ![s] = "none"]
    /\ UNCHANGED <<envVars, parseVars, main, query, url, response, continue_search, depth,
                   since, until, n_threads, counter, i, queue, tmp,
                   late_save, saves_of_page, nfetch, nsaves, delivered, reused,
                   starts, batches, slept>>

\* The save_tweets calls the model follows in one run.
SaveBound == IF cls = "TwitterSlicer" THEN ShardMaxSaves ELSE MaxSaves

\* The history of one save_tweets call on the batch tweets[s].
NoteSave(s) ==
    /\ nsaves' = [nsaves EXCEPT ![s] = IF @ < SaveBound THEN @ + 1 ELSE @]
    /\ saves_of_page' = [saves_of_page EXCEPT ![s] = IF @ < 2 THEN @ + 1 ELSE @]
    /\ delivered' = IF cls = "TwitterSlicer" THEN delivered + Len(tweets[s]) ELSE delivered
    /\ late_save' = [late_save EXCEPT ![s] = @ \/ stopcond[s] # "none"]
    /\ batches' = IF cls = "TwitterSearchImpl"
                  THEN [batches EXCEPT ![s] =
                           Append(@, [k \in 1..Len(tweets[s]) |-> tweets[s][k].tweet_id])]
                  ELSE batches

\* Line 49 with the abstract save_tweets (lines 238-243): a consumer that
\* answers either way.
SaveTweets(s) ==
    /\ cls = "TwitterSearch"
    /\ pc[s] = "save"
    /\ nsaves[s] < SaveBound
    /\ NoteSave(s)
    /\ \E b \in BOOLEAN :
          /\ continue_search' = [continue_search EXCEPT ![s] = b]
          /\ stopcond' = [stopcond EXCEPT ![s] = IF ~b /\ @ = "none" THEN "consumer" ELSE @]
    /\ pc' = [pc EXCEPT ![s] = "advance"]
    /\ UNCHANGED <<envVars, parseVars, main, query, url, response, tweets, min_tweet, depth, exc,
                   slicerVars, advanced, first_seen, nfetch, reused, starts, slept>>

\* A next position that is synthesized whatever the response carries.
MarkerAlways(r, max_tweet, mt) == Marker(max_tweet.tweet_id, mt.tweet_id)

\* Lines 54-57: the response's min_position when it has the key (None for a
\* JSON null), else the marker of the last tweet and min_tweet.
NextPosition(r, max_tweet, mt) ==
    IF r.has_min
    THEN (IF r.min_null THEN None ELSE r.min_position)
    ELSE Marker(max_tweet.tweet_id, mt.tweet_id)

\* Lines 52-58: max_tweet, the "is not" test and the next url.  There is no
\* test of continue_search here.
Advance(s) ==
    /\ pc[s] = "advance"
    /\ LET max_tweet == tweets[s][Len(tweets[s])]
           mp == NextPosition(response[s], max_tweet, min_tweet[s])
       IN  \E b \in IsNot(min_tweet[s], max_tweet) :
              IF b
              THEN /\ url' = [url EXCEPT ![s] = construct_url(query[s], mp)]
                   /\ pc' = [pc EXCEPT ![s] = "rate_sleep"]
                   /\ advanced' = [advanced EXCEPT ![s] =
                          IF response[s].has_min THEN "cursor" ELSE "marker"]
                   /\ reused' = [reused EXCEPT ![s] = @ \/ construct_url(query[s], mp) = url[s]]
              ELSE /\ pc' = [pc EXCEPT ![s] = "loop"]
                   /\ advanced' = [advanced EXCEPT ![s] = "stay"]
                   /\ UNCHANGED <<url, reused>>
    /\ UNCHANGED <<envVars, parseVars, main, query, response, tweets, min_tweet, continue_search,
                   depth, exc, slicerVars, stopcond, late_save, first_seen,
                   saves_of_page, nfetch, nsaves, delivered, starts, batches, slept>>

\* Lines 60-61: the rate_delay sleep ends and execute_search is called.
RateSleep(s) ==
    /\ pc[s] = "rate_sleep"
    /\ pc' = [pc EXCEPT ![s] = "fetch"]
    /\ depth' = [depth EXCEPT ![s] = 0]
    /\ slept' = [slept EXCEPT ![s] = Append(@, PageDelay)]
    /\ UNCHANGED <<envVars, parseVars, main, query, url, response, tweets, min_tweet,
                   continue_search, exc, slicerVars, traceVars>>

(* -------------------------- TwitterSearch.search ---------------------- *)
EmptyRuns ==
    /\ pc = [s \in Runs |-> "idle"]
    /\ query = [s \in Runs |-> "q"]
    /\ url = [s \in Runs |-> construct_url("q", None)]
    /\ response = [s \in Runs |-> NullResponse]
    /\ tweets = [s \in Runs |-> <<>>]
    /\ min_tweet = [s \in Runs |-> NoTweet]
    /\ continue_search = [s \in Runs |-> TRUE]
    /\ depth = [s \in Runs |-> 0]
    /\ exc = [s \in Runs |-> "none"]
    /\ idx = [s \in Runs |-> 1]
    /\ tmp = [s \in Runs |-> 0]
    /\ batches = [s \in Runs |-> <<>>]
    /\ slept = [s \in Runs |-> <<>>]
    /\ stopcond = [s \in Runs |-> "none"]
    /\ late_save = [s \in Runs |-> FALSE]
    /\ advanced = [s \in Runs |-> "none"]
    /\ first_seen = [s \in Runs |-> 0]
    /\ saves_of_page = [s \in Runs |-> 0]
    /\ nfetch = [s \in Runs |-> 0]
    /\ nsaves = [s \in Runs |-> 0]
    /\ delivered = 0
    /\ reused = [s \in Runs |-> FALSE]
    /\ starts = [s \in Runs |-> 0]
    /\ counter = 0
    /\ queue = <<>>
    /\ i = 0

\* Lines 25-26: search(query) is about to call perform_search(query).
\* The abstract engine and the slicer have no quota, and the model leaves
\* their server and their interpreter open.
OpenEnv ==
    /\ max_tweets = None
    /\ feed = [first |-> NullResponse, next |-> NullResponse]
    /\ interp = "open"

\* The tweet dict of lines 104-115 for an li with data-item-id = id.
NewTweet(id) ==
    [tweet_id |-> id, text |-> None, user_id |-> None, user_screen_name |-> None,
     user_name |-> None, created_at |-> None, retweets |-> 0, favorites |-> 0,
     geo_text |-> None, geo_search |-> None]

\* No call of parse_tweets is followed statement by statement.
NoParse ==
    /\ li_list = <<>>
    /\ li_idx = 1
    /\ parse_pc = "idle"
    /\ tweet = NewTweet(0)
    /\ parsed = <<>>
    /\ attempts = 0
    /\ geo_req = "none"

Init ==
    /\ cls = "TwitterSearch"
    /\ main = "search"
    /\ OpenEnv
    /\ NoParse
    /\ since = 0 /\ until = 0 /\ n_threads = 1
    /\ EmptyRuns

\* Line 26: the call of perform_search.
SearchCall ==
    /\ cls = "TwitterSearch"
    /\ main = "search"
    /\ pc[1] = "idle"
    /\ StartOf(1, "q")
    /\ UNCHANGED <<envVars, parseVars, main, response, tweets, depth, exc, slicerVars>>

\* Line 26: perform_search has returned or raised, and so does search.
SearchReturn ==
    /\ cls = "TwitterSearch"
    /\ main = "search"
    /\ Finished(1)
    /\ main' = IF exc[1] = "none" THEN "returned" ELSE "raised"
    /\ UNCHANGED <<envVars, parseVars, engineVars, slicerVars, historyVars>>

Next ==
    \/ SearchCall
    \/ SearchReturn
    \/ \E s \in Runs : ExecuteOk(s)
    \/ \E s \in Runs : ExecuteFail(s)
    \/ \E s \in Runs : ErrorSleep(s)
    \/ \E s \in Runs : WhileTest(s)
    \/ \E s \in Runs : SaveTweets(s)
    \/ \E s \in Runs : Advance(s)
    \/ \E s \in Runs : RateSleep(s)

Spec == Init /\ [][Next]_vars

(* ------------------ a run to its end, true consumer ------------------- *)
\* Line 49 with a save_tweets that always returns True (lines 238-243, as a
\* subclass may write it).  The calls are not cut at SaveBound here.
SaveTrue(s) ==
    /\ cls = "TwitterSearch"
    /\ pc[s] = "save"
    /\ NoteSave(s)
    /\ continue_search' = [continue_search EXCEPT ![s] = TRUE]
    /\ pc' = [pc EXCEPT ![s] = "advance"]
    /\ UNCHANGED <<envVars, parseVars, main, query, url, response, tweets, min_tweet,
                   depth, exc, slicerVars, stopcond, advanced, first_seen, nfetch,
                   reused, starts, slept>>

\* The interpreter is one build or the other.
InitLive ==
    /\ cls = "TwitterSearch"
    /\ main = "search"
    /\ max_tweets = None
    /\ feed = [first |-> NullResponse, next |-> NullResponse]
    /\ interp \in {"one", "two"}
    /\ NoParse
    /\ since = 0 /\ until = 0 /\ n_threads = 1
    /\ EmptyRuns

NextLive ==
    \/ SearchCall
    \/ SearchReturn
    \/ \E s \in Runs : ExecuteOk(s)
    \/ \E s \in Runs : ExecuteFail(s)
    \/ \E s \in Runs : ErrorSleep(s)
    \/ \E s \in Runs : WhileTest(s)
    \/ \E s \in Runs : SaveTrue(s)
    \/ \E s \in Runs : Advance(s)
    \/ \E s \in Runs : RateSleep(s)

\* The calling thread is the only one and always takes its next step.
SpecLive == InitLive /\ [][NextLive]_vars /\ WF_vars(NextLive)

(* -------------------------- TwitterSlicer ----------------------------- *)
\* timedelta.days of b - a: whole days, rounded down.
Days(a, b) == (b - a) \div TicksPerDay

\* t + datetime.timedelta(days=n)
PlusDays(t, n) == t + n * TicksPerDay

\* strftime("%Y-%m-%d"): the date of t, its time of day dropped.
strftime(t) == t \div TicksPerDay

\* A day query whose until is one day too late.
DayQueryTwoDays(q, k) ==
    [q |-> q, since |-> strftime(PlusDays(since, k)), until |-> strftime(PlusDays(since, k + 2))]

\* Lines 297-300: "%s since:%s until:%s"
DayQuery(q, k) ==
    [q |-> q, since |-> strftime(PlusDays(since, k)), until |-> strftime(PlusDays(since, k + 1))]

\* Lines 286-295: a TwitterSlicer whose search has made its executor.
InitSlicer ==
    /\ cls = "TwitterSlicer"
    /\ main = "submit"
    /\ OpenEnv
    /\ NoParse
    /\ since \in 0..MaxTick
    /\ until \in 0..MaxTick
    /\ Days(since, until) <= MaxShards
    /\ n_threads \in 1..MaxThreads
    /\ EmptyRuns

\* Lines 296-301: one turn of the for loop submits perform_search(day_query).
Submit ==
    /\ cls = "TwitterSlicer"
    /\ main = "submit"
    /\ i < Days(since, until)
    /\ query' = [query EXCEPT ![i + 1] = DayQuery("q", i)]
    /\ pc' = [pc EXCEPT ![i + 1] = "queued"]
    /\ queue' = Append(queue, i + 1)
    /\ i' = i + 1
    /\ UNCHANGED <<envVars, parseVars, main, url, response, tweets, min_tweet, continue_search, depth,
                   exc, since, until, n_threads, counter, idx, tmp, historyVars>>

\* Line 302: the loop is over and shutdown(wait=True) is called.
Shutdown ==
    /\ cls = "TwitterSlicer"
    /\ main = "submit"
    /\ i >= Days(since, until)
    /\ main' = "shutdown"
    /\ UNCHANGED <<envVars, parseVars, engineVars, slicerVars, historyVars>>

\* shutdown(wait=False): nothing is waited for.
NothingJoined == TRUE

\* shutdown(wait=True) joins the worker threads, which end when the queue is
\* empty and their work item is over.
AllJoined == queue = <<>> /\ Running = {}

\* Line 302: shutdown returns, and search with it.
SlicerReturn ==
    /\ cls = "TwitterSlicer"
    /\ main = "shutdown"
    /\ AllJoined
    /\ main' = "returned"
    /\ UNCHANGED <<envVars, parseVars, engineVars, slicerVars, historyVars>>

\* An executor that starts a thread for every work item.
WorkerAlwaysFree == TRUE

\* ThreadPoolExecutor(max_workers=n_threads): a worker is free for a work item.
WorkerFree == Cardinality(Running) < n_threads

\* Lines 295, 301: a worker thread takes the oldest work item and calls
\* perform_search(day_query).
StartRun(s) ==
    /\ cls = "TwitterSlicer"
    /\ queue # <<>>
    /\ s = Head(queue)
    /\ WorkerFree
    /\ queue' = Tail(queue)
    /\ StartOf(s, query[s])
    /\ UNCHANGED <<envVars, parseVars, main, response, tweets, depth, exc, since, until, n_threads,
                   counter, i, idx, tmp>>

\* Line 311, first half: self.counter is read.
SaveRead(s) ==
    /\ cls = "TwitterSlicer"
    /\ pc[s] = "save"
    /\ IF idx[s] = 1
       THEN nsaves[s] < SaveBound /\ NoteSave(s)
       ELSE UNCHANGED <<nsaves, saves_of_page, delivered, late_save, batches>>
    /\ tmp' = [tmp EXCEPT ![s] = counter]
    /\ pc' = [pc EXCEPT ![s] = "save_write"]
    /\ UNCHANGED <<envVars, parseVars, main, query, url, response, tweets, min_tweet, continue_search,
                   depth, exc, since, until, n_threads, counter, i, queue, idx,
                   stopcond, advanced, first_seen, nfetch, reused, starts, slept>>

\* The value line 311 stores from the value it read.
Incremented(v) == v + 1

\* Line 311, second half: self.counter is written; then the next tweet, or
\* line 323: return True.
SaveWrite(s) ==
    /\ cls = "TwitterSlicer"
    /\ pc[s] = "save_write"
    /\ counter' = Incremented(tmp[s])
    /\ IF idx[s] < Len(tweets[s])
       THEN /\ idx' = [idx EXCEPT ![s] = @ + 1]
            /\ pc' = [pc EXCEPT ![s] = "save"]
            /\ UNCHANGED continue_search
       ELSE /\ idx' = idx
            /\ pc' = [pc EXCEPT ![s] = "advance"]
            /\ continue_search' = [continue_search EXCEPT ![s] = TRUE]
    /\ UNCHANGED <<envVars, parseVars, main, query, url, response, tweets, min_tweet, depth, exc,
                   since, until, n_threads, i, queue, tmp, historyVars>>

\* A fault that ends every run in progress, not only the faulty one.
AbortedAll(s) == [t \in Runs |-> IF t \in Running THEN "aborted" ELSE pc[t]]

\* Lines 49, 301: an exception raised by save_tweets leaves perform_search and
\* is kept by the future of that work item; the worker thread goes on.
Aborted(s) == [pc EXCEPT ![s] = "aborted"]

\* Lines 311-315: the counter is written, then the rest of the loop body
\* (fromtimestamp, the log call, whatever saves the tweet) raises.
SaveFault(s) ==
    /\ cls = "TwitterSlicer"
    /\ pc[s] = "save_write"
    /\ counter' = Incremented(tmp[s])
    /\ pc' = Aborted(s)
    /\ exc' = [exc EXCEPT ![s] = "ConsumerFault"]
    /\ UNCHANGED <<envVars, parseVars, main, query, url, response, tweets, min_tweet, continue_search,
                   depth, since, until, n_threads, i, queue, idx, tmp, historyVars>>

NextSlicer ==
    \/ Submit
    \/ Shutdown
    \/ SlicerReturn
    \/ \E s \in Runs : StartRun(s)
    \/ \E s \in Runs : ExecuteOk(s)
    \/ \E s \in Runs : ExecuteFail(s)
    \/ \E s \in Runs : ErrorSleep(s)
    \/ \E s \in Runs : WhileTest(s)
    \/ \E s \in Runs : SaveRead(s)
    \/ \E s \in Runs : SaveWrite(s)
    \/ \E s \in Runs : SaveFault(s)
    \/ \E s \in Runs : Advance(s)
    \/ \E s \in Runs : RateSleep(s)

SpecSlicer == InitSlicer /\ [][NextSlicer]_vars

(* -------------------------- TwitterSearchImpl ------------------------- *)
\* max_tweets is None or an int m, written <<m>>.
Quotas == {None} \cup {<<m>> : m \in 1..MaxQuota}

\* An unchanged server: one answer to the url without max_position, one to
\* every url with a max_position.
ImplFeeds ==
    [first : {MkResponse(FALSE, TRUE, FALSE, <<1>>, TRUE, FALSE, c) : c \in Cursors}
               \cup {MkResponse(FALSE, TRUE, FALSE, <<1, 2>>, TRUE, FALSE, c) : c \in Cursors}
               \cup {MkResponse(FALSE, TRUE, FALSE, <<1, 2>>, FALSE, FALSE, None)},
     next : {MkResponse(FALSE, TRUE, FALSE, <<1, 2>>, TRUE, FALSE, c) : c \in Cursors}
               \cup {NullItems}]

\* Lines 254-256: a new TwitterSearchImpl, its search not yet called.
InitImpl ==
    /\ cls = "TwitterSearchImpl"
    /\ main = "search"
    /\ max_tweets \in Quotas
    /\ feed \in ImplFeeds
    /\ interp \in {"one", "two"}
    /\ NoParse
    /\ since = 0 /\ until = 0 /\ n_threads = 1
    /\ EmptyRuns

\* A quota that stops one record late.
QuotaExceeded(c, m) == m # None /\ c > m[1]

\* Line 273: self.max_tweets is not None and self.counter >= self.max_tweets
QuotaReached(c, m) == m # None /\ c >= m[1]

\* Lines 263-276 with n records left and self.counter = c: the counter when
\* save_tweets returns, and what it returns.
RECURSIVE save_tweets(_, _, _)
save_tweets(c, n, m) ==
    IF n = 0 THEN [counter |-> c, ret |-> TRUE]
    ELSE IF QuotaReached(c + 1, m) THEN [counter |-> c + 1, ret |-> FALSE]
    ELSE save_tweets(c + 1, n - 1, m)

\* Line 49 with TwitterSearchImpl.save_tweets.
ImplSave(s) ==
    /\ cls = "TwitterSearchImpl"
    /\ pc[s] = "save"
    /\ nsaves[s] < SaveBound
    /\ NoteSave(s)
    /\ LET r == save_tweets(counter, Len(tweets[s]), max_tweets)
       IN  /\ counter' = r.counter
           /\ continue_search' = [continue_search EXCEPT ![s] = r.ret]
           /\ stopcond' = [stopcond EXCEPT ![s] =
                  IF ~r.ret /\ @ = "none" THEN "consumer" ELSE @]
    /\ pc' = [pc EXCEPT ![s] = "advance"]
    /\ UNCHANGED <<envVars, parseVars, main, query, url, response, tweets, min_tweet, depth, exc,
                   since, until, n_threads, i, queue, idx, tmp,
                   advanced, first_seen, nfetch, reused, starts, slept>>

\* Line 26: search is called on the object, for the first time (run 1) or,
\* once that call has returned, again with the same query (run 2).
ImplCall(s) ==
    /\ cls = "TwitterSearchImpl"
    /\ s \in {1, 2}
    /\ pc[s] = "idle"
    /\ IF s = 1 THEN main = "search" ELSE main = "returned" /\ pc[1] = "done"
    /\ main' = "search"
    /\ StartOf(s, "q")
    /\ UNCHANGED <<envVars, parseVars, response, tweets, depth, exc, slicerVars>>

\* Line 26: perform_search has returned or raised, and so does search.
ImplReturn ==
    /\ cls = "TwitterSearchImpl"
    /\ main = "search"
    /\ \E s \in {1, 2} : Finished(s) /\ (s = 1 => pc[2] = "idle")
    /\ main' = IF \A s \in {1, 2} : exc[s] = "none" THEN "returned" ELSE "raised"
    /\ UNCHANGED <<envVars, parseVars, engineVars, slicerVars, historyVars>>

NextImpl ==
    \/ ImplReturn
    \/ \E s \in Runs : ImplCall(s)
    \/ \E s \in Runs : ExecuteOk(s)
    \/ \E s \in Runs : ExecuteFail(s)
    \/ \E s \in Runs : ErrorSleep(s)
    \/ \E s \in Runs : WhileTest(s)
    \/ \E s \in Runs : ImplSave(s)
    \/ \E s \in Runs : Advance(s)
    \/ \E s \in Runs : RateSleep(s)

SpecImpl == InitImpl /\ [][NextImpl]_vars

(* ----------------------------- parse_tweets --------------------------- *)
\* An li of the fragment: its data-item-id (0: the attribute is missing) and
\* which of the optional nodes it holds.  The user div comes with or without
\* its data-reply-to-users-json attribute.
LiBlocks ==
    [id : {0, 1, 2}, text : BOOLEAN, user : {"absent", "div", "div_json"},
     time : BOOLEAN, rt : BOOLEAN, fav : BOOLEAN]

BareLi(id) ==
    [id |-> id, text |-> FALSE, user |-> "absent", time |-> FALSE, rt |-> FALSE,
     fav |-> FALSE]
FullLi(id) ==
    [id |-> id, text |-> TRUE, user |-> "div_json", time |-> TRUE, rt |-> TRUE,
     fav |-> TRUE]

\* The fragments parsed: one li with any nodes, alone or followed by a sibling.
ParseInputs ==
    LET firsts == {b \in LiBlocks : b.id = 1} \cup {BareLi(0)}
        siblings == {BareLi(0), BareLi(2), FullLi(2)}
    IN  {<<b>> : b \in firsts} \cup {<<b, c>> : b \in firsts, c \in siblings}

\* The rest of the program is not running while parse_tweets is followed.
searchVars == <<envVars, main, engineVars, slicerVars, historyVars>>

InitParse ==
    /\ cls = "TwitterSearch"
    /\ main = "parse"
    /\ OpenEnv
    /\ since = 0 /\ until = 0 /\ n_threads = 1
    /\ EmptyRuns
    /\ li_list \in ParseInputs
    /\ li_idx = 1
    /\ parse_pc = "head"
    /\ tweet = NewTweet(0)
    /\ parsed = <<>>
    /\ attempts = 0
    /\ geo_req = "none"

\* Lines 157-171: the screen name when the attribute is there, else None.
get_user_name(user) == IF user = "div_json" THEN <<"screen">> ELSE None

\* Lines 101-131: an li without data-item-id is skipped; otherwise the dict
\* with its defaults, then the text and the user fields.
ParseHead ==
    /\ parse_pc = "head"
    /\ li_idx <= Len(li_list)
    /\ LET li == li_list[li_idx]
           t0 == NewTweet(li.id)
           t1 == IF li.text THEN [t0 EXCEPT !.text = <<"text">>] ELSE t0
           t2 == IF li.user # "absent"
                 THEN [t1 EXCEPT !.user_id = <<"uid">>,
                                 !.user_screen_name = get_user_name(li.user),
                                 !.user_name = <<"name">>]
                 ELSE t1
       IN  IF li.id = 0
           THEN /\ li_idx' = li_idx + 1
                /\ UNCHANGED <<parse_pc, tweet>>
           ELSE /\ tweet' = t2
                /\ parse_pc' = "geo"
                /\ UNCHANGED li_idx
    /\ attempts' = 0
    /\ geo_req' = "none"
    /\ UNCHANGED <<searchVars, li_list, parsed>>

\* What requests.get of the permalink can do: raise, or answer with a page
\* without the geo span, with the span and its link, with the span alone.
GeoOutcomes == {"raises", "no_geo", "geo", "geo_no_link"}

\* A get_tweet that asks once more when requests.get raised.
get_tweet_retry(tw, o) ==
    IF tw.user_id = None THEN [req |-> None, attempts |-> 0]
    ELSE IF o = "raises" THEN [req |-> None, attempts |-> 2]
    ELSE [req |-> <<o>>, attempts |-> 1]

\* Lines 195-213: with user_id None the url expression raises TypeError
\* before requests.get; any exception is logged and None is returned.
get_tweet(tw, o) ==
    IF tw.user_id = None THEN [req |-> None, attempts |-> 0]
    ELSE IF o = "raises" THEN [req |-> None, attempts |-> 1]
    ELSE [req |-> <<o>>, attempts |-> 1]

\* Lines 174-192: geo_text is set at line 187 and geo_search at line 188;
\* an exception at any line returns the tweet as it is by then.
get_geo(req, tw) ==
    IF req = <<"geo">>
    THEN [tw EXCEPT !.geo_text = <<"place">>, !.geo_search = <<"href">>]
    ELSE IF req = <<"geo_no_link">>
    THEN [tw EXCEPT !.geo_text = <<"place">>]
    ELSE tw

\* Lines 133-136.
ParseGeo ==
    /\ parse_pc = "geo"
    /\ \E o \in GeoOutcomes :
          LET g == get_tweet(tweet, o)
          IN  /\ tweet' = IF g.req # None THEN get_geo(g.req, tweet) ELSE tweet
              /\ attempts' = g.attempts
              /\ geo_req' = IF g.attempts = 0 THEN "skipped" ELSE o
    /\ parse_pc' = "tail"
    /\ UNCHANGED <<searchVars, li_list, li_idx, parsed>>

\* Lines 138-153: the timestamp, the retweets, and the favorites, whose test
\* at line 150 is len(retweet_span) > 0: favorite_span[0] raises IndexError
\* when the li has a retweet count and no favorite count.
ParseTail ==
    /\ parse_pc = "tail"
    /\ LET li == li_list[li_idx]
           t1 == IF li.time THEN [tweet EXCEPT !.created_at = <<1>>] ELSE tweet
           t2 == IF li.rt THEN [t1 EXCEPT !.retweets = 1] ELSE t1
           t3 == IF li.rt THEN [t2 EXCEPT !.favorites = 2] ELSE t2
       IN  IF li.rt /\ ~li.fav
           THEN /\ parse_pc' = "raised"
                /\ tweet' = t2
                /\ UNCHANGED <<li_idx, parsed>>
           ELSE /\ parse_pc' = "head"
                /\ tweet' = t3
                /\ parsed' = Append(parsed, t3)
                /\ li_idx' = li_idx + 1
    /\ UNCHANGED <<searchVars, li_list, attempts, geo_req>>

\* Line 154: the for loop is over.
ParseReturn ==
    /\ parse_pc = "head"
    /\ li_idx > Len(li_list)
    /\ parse_pc' = "returned"
    /\ UNCHANGED <<searchVars, li_list, li_idx, tweet, parsed, attempts, geo_req>>

NextParse ==
    \/ ParseHead
    \/ ParseGeo
    \/ ParseTail
    \/ ParseReturn

SpecParse == InitParse /\ [][NextParse]_vars

(* ------------------------------ properties ---------------------------- *)
LastOf(s) == tweets[s][Len(tweets[s])]

\* Lines 52-58 have just run for the batch tweets[s] of response[s], and the
\* run has not yet fetched or tested anything since.
JustAdvanced(s) == advanced[s] # "none"

\* C1: once save_tweets has returned false, the run neither sleeps for
\* rate_delay nor fetches again (it is never in the sleep of line 60 nor in
\* execute_search).
C1_NoFetchAfterStop ==
    \A s \in Runs :
        stopcond[s] = "consumer" => pc[s] \notin {"rate_sleep", "fetch", "error_sleep"}

\* C2: each stop condition ends the run normally: after save_tweets returned
\* false no exception ends the run and save_tweets is not called again; a page
\* without tweets, and a null or absent items_html, end the run in "done",
\* with no exception and no save_tweets call for that page.
C2_HaltsOnStop ==
    \A s \in Runs :
        /\ stopcond[s] # "none" => exc[s] = "none" /\ ~late_save[s]
        /\ stopcond[s] \in {"no_tweets", "null_items", "absent_items"}
              => pc[s] = "done" /\ saves_of_page[s] = 0

\* C3: after a batch of exactly one record on which save_tweets returned
\* true, with a cursor in the response, the next url has been built with that
\* cursor; and no marker is ever built from two identical ids.
C3_SingleRecordUsesCursor ==
    \A s \in Runs :
        /\ (JustAdvanced(s) /\ Len(tweets[s]) = 1 /\ continue_search[s]
              /\ response[s].has_min /\ ~response[s].min_null)
              => /\ advanced[s] = "cursor"
                 /\ MaxPositionOf(url[s]) = response[s].min_position
        /\ advanced[s] = "marker" => MaxPositionOf(url[s])[2] # MaxPositionOf(url[s])[3]

\* A batch of at least two records with distinct first and last ids whose
\* response has no min_position key.
TwoEndedNoCursor(s) ==
    /\ JustAdvanced(s)
    /\ Len(tweets[s]) >= 2
    /\ tweets[s][1].tweet_id # LastOf(s).tweet_id
    /\ ~response[s].has_min

C5_NoPageTwice ==
    \A s \in Runs : saves_of_page[s] <= 1 /\ ~reused[s]

\* C6: no exception ever leaves execute_search.
C6_NeverSurfaces ==
    \A s \in Runs : exc[s] # "RecursionError"

\* The runs TwitterSlicer.search has submitted.
Submitted == {s \in Runs : pc[s] # "idle"}

Ticks == 0..((MaxTick \div TicksPerDay + MaxShards + 1) * TicksPerDay)

\* The instants of the days a shard's query asks for.
Covered(s) ==
    {t \in Ticks : query[s].since * TicksPerDay <= t /\ t < query[s].until * TicksPerDay}

NDays == IF Days(since, until) > 0 THEN Days(since, until) ELSE 0

\* What C7 says of the shards whatever they cover: their number, each one day
\* long from the date of since + i days, no two alike, no two overlapping, and
\* none when until <= since.
ShardsWellFormed ==
    /\ Cardinality(Submitted) = NDays
    /\ \A s \in Submitted :
          /\ query[s].q = "q"
          /\ query[s].since = strftime(since + (s - 1) * TicksPerDay)
          /\ query[s].until = query[s].since + 1
    /\ \A s, t \in Submitted : s # t => query[s] # query[t] /\ Covered(s) \cap Covered(t) = {}
    /\ until <= since => Submitted = {}

C8_BoundedPool ==
    /\ [](/\ Cardinality(Running) <= n_threads
          /\ \A s \in Runs : starts[s] <= 1
          /\ main = "returned" => \A s \in Submitted : starts[s] = 1)
    /\ [][\A s \in Runs : starts'[s] > starts[s] => Cardinality(Running) < n_threads]_vars

\* C8's case: with one worker, the second shard runs after the first is over.
C8_Witness == n_threads = 1 /\ Finished(1) /\ 2 \in Running

\* C9: search has not returned while a submitted run is queued or in progress.
C9_ReturnsAfterAll ==
    main = "returned" => queue = <<>> /\ \A s \in Submitted : Finished(s)

\* C9's case: search has returned after two shards, one of which left the
\* retry loop of execute_search by an exception.
C9_Witness ==
    /\ main = "returned"
    /\ Cardinality(Submitted) = 2
    /\ \E s \in Submitted : exc[s] = "RecursionError"

\* C10: once search has returned, self.counter is the number of records
\* handed to save_tweets.
C10_CounterExact ==
    main = "returned" => counter = delivered

\* What belongs to one run: the locals of its perform_search call and its history.
LocalOf(s) ==
    <<pc[s], query[s], url[s], response[s], tweets[s], min_tweet[s], continue_search[s],
      depth[s], exc[s], idx[s], tmp[s], nfetch[s], nsaves[s], saves_of_page[s], starts[s]>>

\* C11: once save_tweets has raised in a run, nothing more happens in that run
\* (no fetch, no save_tweets call); no step changes what belongs to two runs,
\* so the fault leaves every other run where it was; a run that raised does not
\* keep search from returning, and search has not returned before the other
\* runs are over.
C11_FaultIsolated ==
    /\ [][\A s \in Runs : exc[s] = "ConsumerFault" => LocalOf(s)' = LocalOf(s)]_vars
    /\ [][\A s, t \in Runs :
             (s # t /\ LocalOf(s)' # LocalOf(s)) => LocalOf(t)' = LocalOf(t)]_vars
    /\ [](main = "returned" => \A s \in Submitted : Finished(s))
    /\ []((main = "shutdown" /\ queue = <<>> /\ \A s \in Submitted : Finished(s))
             => ENABLED SlicerReturn)

\* C11's case: search has returned; one shard was ended by its consumer's
\* fault and another one delivered a batch and reached the end of its loop.
C11_Witness ==
    /\ main = "returned"
    /\ \E s, t \in Submitted :
          /\ exc[s] = "ConsumerFault"
          /\ pc[t] = "done" /\ nsaves[t] >= 1

IsMarker(mp) == mp # None /\ mp[1] = "TWEET"

\* C15: when lines 53-58 have built the next url from a page of two or more
\* records that save_tweets answered true for, and the response has a
\* min_position with a value, the url's max_position is exactly that value;
\* with a min_position key the url never carries a "TWEET-..." marker; a url
\* that carries a marker was built from a response without the key.
C15_CursorVerbatim ==
    \A s \in Runs :
       pc[s] = "rate_sleep" =>
          /\ (Len(tweets[s]) >= 2 /\ continue_search[s]
                /\ response[s].has_min /\ ~response[s].min_null)
               => url[s] = construct_url(query[s], response[s].min_position)
          /\ response[s].has_min => ~IsMarker(MaxPositionOf(url[s]))
          /\ IsMarker(MaxPositionOf(url[s])) => ~response[s].has_min

\* C15's case: a page of two records, save_tweets answered true, the response
\* has a cursor and the next url has been built from it.
C15_Witness ==
    \E s \in Runs :
       /\ pc[s] = "rate_sleep"
       /\ Len(tweets[s]) >= 2 /\ continue_search[s]
       /\ response[s].has_min /\ ~response[s].min_null
       /\ MaxPositionOf(url[s]) \in Cursors

\* C18: every request after the first successful fetch of a run carries a
\* max_position with a value (the run never asks for the first page again).
C18_LaterRequestsCarryToken ==
    \A s \in Runs :
       (pc[s] = "fetch" /\ nfetch[s] >= 1) => MaxPositionOf(url[s]) # None

\* The steps of run s.
RunStep(s) ==
    \/ ExecuteOk(s) \/ ExecuteFail(s) \/ ErrorSleep(s) \/ WhileTest(s)
    \/ SaveRead(s) \/ SaveWrite(s) \/ Advance(s) \/ RateSleep(s)

Sleeping(s) == pc[s] \in {"rate_sleep", "error_sleep"}

\* C17: a run is about to send a request.  Before its first request it has
\* not slept; before the request of a next page it has slept once, for
\* rate_delay; before a retry it has slept once, for error_delay.  While a run
\* sleeps, every other run that is between two statements can take its step,
\* and a queued run can start when a worker is free.
C17_DelayOrdering ==
    /\ \A s \in Runs :
          pc[s] = "fetch" =>
             /\ (depth[s] = 0 /\ nfetch[s] = 0) => slept[s] = <<>>
             /\ (depth[s] = 0 /\ nfetch[s] >= 1) => slept[s] = <<PageDelay>>
             /\ depth[s] > 0 => slept[s] = <<"error_delay">>
    /\ \A s, t \in Runs :
          (s # t /\ Sleeping(s)) =>
             /\ pc[t] \in {"fetch", "loop", "save_write", "advance"} => ENABLED RunStep(t)
             /\ (queue # <<>> /\ Head(queue) = t /\ WorkerFree) => ENABLED StartRun(t)

\* C17's case: one run sleeps for rate_delay while another, which has slept
\* for rate_delay, is about to send the request of its next page.
C17_Witness ==
    \E s, t \in Runs :
       /\ s # t
       /\ pc[s] = "rate_sleep"
       /\ pc[t] = "fetch" /\ depth[t] = 0 /\ nfetch[t] >= 1 /\ slept[t] = <<"rate_delay">>

\* C12: when two searches with the same query on one TwitterSearchImpl have
\* both reached the end of perform_search, against the same server and in
\* the same interpreter, save_tweets was handed the same batches in both.
C12_SameBatches ==
    (cls = "TwitterSearchImpl" /\ pc[1] = "done" /\ pc[2] = "done")
       => batches[1] = batches[2]

\* C19: during the first search on a new TwitterSearchImpl with max_tweets = M
\* the counter is never above M; a save_tweets call returns False exactly when
\* the counter reaches M in it (the records after that one are not counted)
\* and otherwise returns True having counted the whole batch; with
\* max_tweets = None every call returns True.
C19_Quota ==
    /\ []((cls = "TwitterSearchImpl" /\ max_tweets # None /\ starts[2] = 0)
            => counter <= max_tweets[1])
    /\ [][(cls = "TwitterSearchImpl" /\ pc[1] = "save" /\ pc'[1] = "advance") =>
             IF max_tweets = None
             THEN continue_search'[1] /\ counter' = counter + Len(tweets[1])
             ELSE /\ ~continue_search'[1] <=> (counter < max_tweets[1] /\ counter' = max_tweets[1])
                  /\ continue_search'[1] => counter' = counter + Len(tweets[1])
                  /\ ~continue_search'[1] => counter' <= counter + Len(tweets[1])]_vars

\* C19's case: the first search, max_tweets = M; save_tweets returned True
\* for one batch and then False in the middle of the next, where the counter
\* reached M.
C19_Witness ==
    /\ cls = "TwitterSearchImpl" /\ max_tweets # None
    /\ pc[1] = "advance" /\ ~continue_search[1]
    /\ nsaves[1] = 2 /\ Len(tweets[1]) = 2
    /\ counter = max_tweets[1] /\ counter = 3

\* The fields of a tweet dict other than the two geo fields.
NonGeo(tw) ==
    <<tw.tweet_id, tw.text, tw.user_id, tw.user_screen_name, tw.user_name,
      tw.created_at, tw.retweets, tw.favorites>>

\* What an li with an id stands for: the value of each node it holds, the
\* default of each node it lacks.
FieldsOf(li) ==
    <<li.id,
      IF li.text THEN <<"text">> ELSE None,
      IF li.user # "absent" THEN <<"uid">> ELSE None,
      IF li.user = "div_json" THEN <<"screen">> ELSE None,
      IF li.user # "absent" THEN <<"name">> ELSE None,
      IF li.time THEN <<1>> ELSE None,
      IF li.rt THEN 1 ELSE 0,
      IF li.fav THEN 2 ELSE 0>>

HasId(li) == li.id # 0

\* C13: parse_tweets raises for no combination of nodes, and what it returns
\* holds one record for each li that has an id, in order, each field with its
\* node's value or, without the node, its default.
C13_FieldsIndependent ==
    /\ parse_pc # "raised"
    /\ parse_pc = "returned" =>
          LET lis == SelectSeq(li_list, HasId)
          IN  /\ Len(parsed) = Len(lis)
              /\ \A j \in 1..Len(lis) : NonGeo(parsed[j]) = FieldsOf(lis[j])

\* C14: get_tweet calls requests.get at most once for a record; lines 133-136
\* always go on to line 138, with the list and every field but the geo ones
\* as they were; after a request that raised, a page without the geo span, or
\* no request at all (the only case for a record without user id), geo_text
\* and geo_search are None.
C14_GeoFetch ==
    /\ [](attempts <= 1)
    /\ [](parse_pc = "tail" =>
            /\ geo_req \in {"skipped", "raises", "no_geo"}
                 => (tweet.geo_text = None /\ tweet.geo_search = None)
            /\ tweet.user_id = None => (geo_req = "skipped" /\ attempts = 0))
    /\ [][parse_pc = "geo" =>
             /\ parse_pc' = "tail"
             /\ NonGeo(tweet') = NonGeo(tweet)
             /\ parsed' = parsed /\ li_idx' = li_idx /\ li_list' = li_list]_vars

\* C14's case: the one request for a record with text and a user id raised,
\* and parse_tweets is at line 138 with that record, after a first record
\* without user id that is already in the list.
C14_Witness ==
    /\ parse_pc = "tail"
    /\ geo_req = "raises" /\ attempts = 1
    /\ tweet.text # None /\ tweet.user_id # None
    /\ tweet.geo_text = None /\ tweet.geo_search = None
    /\ Len(parsed) = 1 /\ parsed[1].user_id = None

\* C16: with a save_tweets that always returns True and a server that ends
\* its feed after MaxPages pages, perform_search comes to an end.
C16_Terminates == <>Finished(1)

====
